---- MODULE Spec2Model ----
(***************************************************************************)
(* Model of motor_characterization::SystemIdentification: the sample       *)
(* store, the least-squares fit and the feedforward prediction.            *)
(*                                                                         *)
(* A double is modelled as an exact rational [n, d] in lowest terms with   *)
(* d > 0, or as a non-finite value with d = 0: n = 0 is NaN, n = 1 is +Inf *)
(* and n = -1 is -Inf.  Rounding is not modelled.                          *)
(***************************************************************************)
EXTENDS Integers, Sequences, FiniteSets, TLC

\* ------------------------------------------------------------------ bounds
\* Largest number of samples the store is allowed to grow to in the model.
MaxSamples == 4

\* ------------------------------------------------------- double arithmetic
RECURSIVE GCD(_, _)
GCD(a, b) == IF b = 0 THEN a ELSE GCD(b, a % b)

Abs(i) == IF i < 0 THEN -i ELSE i
Sgn(i) == IF i > 0 THEN 1 ELSE IF i < 0 THEN -1 ELSE 0

NaN == [n |-> 0, d |-> 0]

Rat(num, den) ==
    IF den = 0 THEN [n |-> Sgn(num), d |-> 0]
    ELSE LET g == GCD(Abs(num), Abs(den))
             s == Sgn(den)
         IN  [n |-> (s * num) \div g, d |-> (s * den) \div g]

Num(i) == [n |-> i, d |-> 1]
Zero == Num(0)
One == Num(1)
MinusOne == Num(-1)

IsFinite(x) == x.d # 0
IsNaN(x) == x.d = 0 /\ x.n = 0
IsZero(x) == x.d # 0 /\ x.n = 0

Neg(x) == [n |-> -x.n, d |-> x.d]

Add(x, y) ==
    IF IsNaN(x) \/ IsNaN(y) THEN NaN
    ELSE IF x.d = 0 /\ y.d = 0 THEN (IF x.n = y.n THEN x ELSE NaN)
    ELSE IF x.d = 0 THEN x
    ELSE IF y.d = 0 THEN y
    ELSE LET g == GCD(x.d, y.d)
         IN  Rat(x.n * (y.d \div g) + y.n * (x.d \div g), (x.d \div g) * y.d)

Sub(x, y) == Add(x, Neg(y))

Mul(x, y) ==
    IF IsNaN(x) \/ IsNaN(y) THEN NaN
    ELSE IF x.d = 0 \/ y.d = 0
         THEN (IF x.n = 0 \/ y.n = 0 THEN NaN
               ELSE [n |-> Sgn(x.n) * Sgn(y.n), d |-> 0])
    ELSE LET g == GCD(Abs(x.n), y.d)
             h == GCD(Abs(y.n), x.d)
         IN  Rat((x.n \div g) * (y.n \div h), (x.d \div h) * (y.d \div g))

Div(x, y) ==
    IF IsNaN(x) \/ IsNaN(y) THEN NaN
    ELSE IF y.d = 0 THEN (IF x.d = 0 THEN NaN ELSE Zero)
    ELSE IF y.n = 0 THEN (IF x.n = 0 THEN NaN ELSE [n |-> Sgn(x.n), d |-> 0])
    ELSE IF x.d = 0 THEN [n |-> x.n * Sgn(y.n), d |-> 0]
    ELSE Mul(x, Rat(y.d, y.n))

\* x > 0 as C++ evaluates it: false for NaN, true for +Inf.
GtZero(x) == x.n > 0

\* x < y as C++ evaluates it: false when either side is NaN.
Less(x, y) ==
    IF IsNaN(x) \/ IsNaN(y) THEN FALSE
    ELSE IF x.d = 0 THEN x.n < 0 /\ y # x
    ELSE IF y.d = 0 THEN y.n > 0
    ELSE x.n * y.d < y.n * x.d

RECURSIVE SumSeq(_)
SumSeq(s) == IF s = <<>> THEN Zero ELSE Add(SumSeq(SubSeq(s, 1, Len(s) - 1)), s[Len(s)])

Dot(u, w) == SumSeq([i \in 1..Len(u) |-> Mul(u[i], w[i])])

AllFinite(s) == \A i \in 1..Len(s) : IsFinite(s[i])

\* ----------------------------------------------------------- program data
\* Scale used to state the 1e-10 threshold of calculateRSquared in 32-bit
\* integers: 1e-10 = 1 / (TssScale * TssScale).
TssScale == 100000

\* struct DataPoint
DataPoint(v, vel, acc, t) ==
    [voltage |-> v, velocity |-> vel, acceleration |-> acc, timestamp |-> t]

\* struct FeedforwardConstants, with its defaulted constructor arguments
FeedforwardConstants(s, v, a) == [kS |-> s, kV |-> v, kA |-> a]

\* The samples a caller may append.  Voltages, velocities and accelerations
\* of both signs, a zero velocity, and one sample whose acceleration is NaN.
Samples ==
    { DataPoint(Num(5), Num(1), Num(2), Num(1)),
      DataPoint(Num(-1), Num(0), Num(0), Num(2)),
      DataPoint(Num(2), Num(-1), NaN, Num(3)) }

\* Arguments (velocity, acceleration) for predictVoltage and calculateError,
\* and the actual voltage for calculateError.
Motions == { << Num(0), Num(0) >>, << Num(2), Num(1) >> }
Voltages == { Num(3) }

VARIABLES
    dataPoints,     \* std::vector<DataPoint> dataPoints
    constants,      \* FeedforwardConstants constants
    rSquared,       \* double rSquared
    isIdentified,   \* bool isIdentified
    call,           \* the last function called, see Called
    \* ---- the programs that use the object (main.cpp and the example)
    pc,             \* where the opcontrol task stands in its program
    motor,          \* the last command issued to the motor
    level,          \* i + 1: position in testVoltages of the level at hand
    elapsed,        \* pros::millis() - startTime at the last reading of the clock
    \* main.cpp
    startRequested,             \* std::atomic<bool> startRequested
    consistencyTestRequested,   \* std::atomic<bool> consistencyTestRequested
    isCharacterizing,           \* bool isCharacterizing, of opcontrol
    test,                       \* int test of runConsistencyTest; 0 in a single run
    previousVelocity,           \* double previousVelocity
    previousTime,               \* double previousTime
    readings,                   \* the readings taken so far at the level at hand
    \* motor_characterization_example.cpp
    characterizationStarted,    \* bool characterizationStarted, of opcontrol
    velocityHistory,            \* std::vector<double> velocityHistory
    timeHistory,                \* std::vector<double> timeHistory
    lastSampleTime              \* lastSampleTime - startTime

\* The SystemIdentification object.
objectVars == <<dataPoints, constants, rSquared, isIdentified>>

\* The task that runs opcontrol, in either program.
taskVars == <<pc, motor, level, elapsed>>

mainVars ==
    <<startRequested, consistencyTestRequested, isCharacterizing, test,
      previousVelocity, previousTime, readings>>

exampleVars == <<characterizationStarted, velocityHistory, timeHistory, lastSampleTime>>

programVars == <<taskVars, mainVars, exampleVars>>

vars == <<dataPoints, constants, rSquared, isIdentified, call, programVars>>

\* Mutant of calculate: the sign of a zero velocity taken as +1.
calculate_SignOfZeroPositive(k, velocity, acceleration) ==
    Add(Add(Mul(k.kS, IF GtZero(velocity) \/ IsZero(velocity) THEN One ELSE MinusOne),
            Mul(k.kV, velocity)),
        Mul(k.kA, acceleration))

\* FeedforwardConstants::calculate
calculate(k, velocity, acceleration) ==
    Add(Add(Mul(k.kS, IF GtZero(velocity) THEN One ELSE MinusOne),
            Mul(k.kV, velocity)),
        Mul(k.kA, acceleration))

\* An Eigen matrix: its dimensions and its cells, row by row.
Matrix(r, c, cells) == [rows |-> r, cols |-> c, cell |-> cells]

\* Mutant of buildDesignMatrix: the sign of a zero velocity taken as +1.
buildDesignMatrix_SignOfZeroPositive(points, includeStaticFriction, includeAcceleration) ==
    LET numPoints == Len(points)
        numFeatures == 1 + (IF includeStaticFriction THEN 1 ELSE 0)
                         + (IF includeAcceleration THEN 1 ELSE 0)
        row(i) ==
            (IF includeStaticFriction
             THEN << IF GtZero(points[i].velocity) \/ IsZero(points[i].velocity)
                     THEN One ELSE MinusOne >>
             ELSE << >>)
            \o << points[i].velocity >>
            \o (IF includeAcceleration THEN << points[i].acceleration >> ELSE << >>)
    IN  [rows |-> numPoints, cols |-> numFeatures, cell |-> [i \in 1..numPoints |-> row(i)]]

\* SystemIdentification::buildDesignMatrix
buildDesignMatrix(points, includeStaticFriction, includeAcceleration) ==
    LET numPoints == Len(points)
        numFeatures == 1 + (IF includeStaticFriction THEN 1 ELSE 0)
                         + (IF includeAcceleration THEN 1 ELSE 0)
        row(i) ==
            (IF includeStaticFriction
             THEN << IF GtZero(points[i].velocity) THEN One ELSE MinusOne >>
             ELSE << >>)
            \o << points[i].velocity >>
            \o (IF includeAcceleration THEN << points[i].acceleration >> ELSE << >>)
    IN  Matrix(numPoints, numFeatures, [i \in 1..numPoints |-> row(i)])

\* SystemIdentification::buildResponseVector
buildResponseVector(points) == [i \in 1..Len(points) |-> points[i].voltage]

\* Mutant of LessThanTssThreshold: the test is tss < 0.
LessThanTssThreshold_Negative(x) == IsFinite(x) /\ x.n < 0

\* tss < 1e-10, for a double tss
LessThanTssThreshold(x) ==
    IF IsNaN(x) THEN FALSE
    ELSE IF x.d = 0 THEN x.n < 0
    ELSE IF x.n <= 0 THEN TRUE
    ELSE IF x.n > x.d \div TssScale THEN FALSE
    ELSE x.n * TssScale < (x.d + TssScale - 1) \div TssScale

Square(x) == Mul(x, x)

\* Mutant of calculateRSquared: rss / tss, the "1.0 -" left out.
calculateRSquared_RssOverTss(predicted, actual) ==
    IF Len(predicted) # Len(actual) \/ Len(predicted) = 0 THEN Zero
    ELSE LET mean == Div(SumSeq(actual), Num(Len(actual)))
             tss == SumSeq([i \in 1..Len(actual) |-> Mul(Sub(actual[i], mean), Sub(actual[i], mean))])
             rss == SumSeq([i \in 1..Len(actual) |-> Mul(Sub(actual[i], predicted[i]), Sub(actual[i], predicted[i]))])
         IN  IF LessThanTssThreshold(tss) THEN Zero
             ELSE Div(rss, tss)

\* SystemIdentification::calculateRSquared
calculateRSquared(predicted, actual) ==
    IF Len(predicted) # Len(actual) \/ Len(predicted) = 0 THEN Zero
    ELSE LET mean == Div(SumSeq(actual), Num(Len(actual)))
             tss == SumSeq([i \in 1..Len(actual) |-> Square(Sub(actual[i], mean))])
             rss == SumSeq([i \in 1..Len(actual) |-> Square(Sub(actual[i], predicted[i]))])
         IN  IF LessThanTssThreshold(tss) THEN Zero
             ELSE Sub(One, Div(rss, tss))

\* X * beta
MatVec(X, beta) == [i \in 1..X.rows |-> Dot(X.cell[i], beta)]

\* ------------------------------------------ X.colPivHouseholderQr().solve(y)
\* Determinant of the k x k matrix M (k <= 3, the largest number of columns).
Det(M, k) ==
    IF k = 0 THEN One
    ELSE IF k = 1 THEN M[1][1]
    ELSE IF k = 2 THEN Sub(Mul(M[1][1], M[2][2]), Mul(M[1][2], M[2][1]))
    ELSE Add(Sub(Mul(M[1][1], Sub(Mul(M[2][2], M[3][3]), Mul(M[2][3], M[3][2]))),
                 Mul(M[1][2], Sub(Mul(M[2][1], M[3][3]), Mul(M[2][3], M[3][1])))),
             Mul(M[1][3], Sub(Mul(M[2][1], M[3][2]), Mul(M[2][2], M[3][1]))))

\* Gram determinant of the columns S of X, g being X^T X: the product of the
\* squared pivots the factorization meets when it takes the columns S in turn.
GramDet(g, S) ==
    Det([i \in 1..Len(S) |-> [j \in 1..Len(S) |-> g[S[i]][S[j]]]], Len(S))

\* maxCoeff(&index) over the entries j..last of val: the visitor starts from
\* entry best and moves on only to an entry that compares greater, so the
\* first maximum wins and a NaN is taken only when it comes first.
RECURSIVE MaxCoeffIndex(_, _, _, _)
MaxCoeffIndex(val, best, j, last) ==
    IF j > last THEN best
    ELSE MaxCoeffIndex(val, IF Less(val[best], val[j]) THEN j ELSE best, j + 1, last)

\* maxCoeff() over val from entry j on, res being the maximum so far: the
\* reduction keeps res unless the next entry compares greater.
RECURSIVE MaxCoeff(_, _, _)
MaxCoeff(val, res, j) ==
    IF j > Len(val) THEN res
    ELSE MaxCoeff(val, IF Less(res, val[j]) THEN val[j] ELSE res, j + 1)

\* The remaining norms step k compares, up to the common factor of the
\* pivots before it.
RemainingNorms(g, ord, k) ==
    [p \in 1..Len(ord) |->
        IF p < k THEN Zero ELSE GramDet(g, SubSeq(ord, 1, k - 1) \o << ord[p] >>)]

\* Step k of the factorization: the column maxCoeff(&index) finds among the
\* remaining ones.
BiggestCol(g, ord, k) == MaxCoeffIndex(RemainingNorms(g, ord, k), k, k + 1, Len(ord))

SwapCols(ord, k, p) ==
    [i \in 1..Len(ord) |-> IF i = k THEN ord[p] ELSE IF i = p THEN ord[k] ELSE ord[i]]

\* The column permutation the factorization ends with.
RECURSIVE ColsPermutation(_, _, _)
ColsPermutation(g, ord, k) ==
    IF k > Len(ord) THEN ord
    ELSE ColsPermutation(g, SwapCols(ord, k, BiggestCol(g, ord, k)), k + 1)

\* threshold_helper > 0: the largest column norm, as maxCoeff() reduces the
\* norms, is a positive number.  With a zero or NaN threshold no pivot is
\* ever found negligible.
ThresholdPositive(g) ==
    GtZero(MaxCoeff([j \in 1..Len(g) |-> g[j][j]], g[1][1], 2))

\* nonzeroPivots(): the pivots before the first one that is negligible.
NonzeroPivots(g, ord) ==
    IF ~ThresholdPositive(g) THEN Len(ord)
    ELSE Cardinality({k \in 1..Len(ord) :
            \A i \in 1..k : ~IsZero(GramDet(g, SubSeq(ord, 1, i)))})

\* X^T X and X^T y
Column(X, j) == [i \in 1..X.rows |-> X.cell[i][j]]

GramMatrix(X) ==
    [a \in 1..X.cols |-> [b \in 1..X.cols |-> Dot(Column(X, a), Column(X, b))]]

Moments(X, y) == [a \in 1..X.cols |-> Dot(Column(X, a), y)]

\* The least-squares coefficients of the linearly independent columns S.
LeastSquaresOver(g, h, S) ==
    LET r == Len(S)
        M == [i \in 1..r |-> [j \in 1..r |-> g[S[i]][S[j]]]]
        Mb(c) == [i \in 1..r |-> [j \in 1..r |-> IF j = c THEN h[S[i]] ELSE g[S[i]][S[j]]]]
    IN  [c \in 1..r |-> Div(Det(Mb(c), r), Det(M, r))]

\* The solution for the permutation ord and r non-negligible pivots: the
\* first r pivoted columns get their least-squares coefficients, the other
\* columns get 0.
PivotedSolution(ord, r, x) ==
    [j \in 1..Len(ord) |->
        IF \E c \in 1..r : ord[c] = j
        THEN x[CHOOSE c \in 1..r : ord[c] = j]
        ELSE Zero]

\* A column with a non-finite cell among the first r pivots makes the
\* reflector of its step, and with it every coefficient, non-finite.
SolveWithPermutation(g, h, ord, r) ==
    IF \E c \in 1..r : ~IsFinite(g[ord[c]][ord[c]])
    THEN [j \in 1..Len(ord) |-> NaN]
    ELSE PivotedSolution(ord, r, LeastSquaresOver(g, h, SubSeq(ord, 1, r)))

SolvePivoted(g, h, ord) == SolveWithPermutation(g, h, ord, NonzeroPivots(g, ord))

\* The solution for a zero X: no pivot counts as negligible, the triangular
\* solve divides every non-zero y(j), j <= cols, by the zero pivot and
\* carries the result into the coefficients before it.
ZeroMatrixSolution(y, n) ==
    [j \in 1..n |->
        IF \E i \in (j + 1)..n : ~IsZero(y[i]) THEN NaN
        ELSE IF IsZero(y[j]) THEN Zero
        ELSE Div(y[j], Zero)]

SolveFinite(g, h, y, n) ==
    IF \A j \in 1..n : IsZero(g[j][j])
    THEN ZeroMatrixSolution(y, n)
    ELSE IF ~AllFinite(y)
    THEN [j \in 1..n |-> NaN]
    ELSE SolvePivoted(g, h, ColsPermutation(g, [i \in 1..n |-> i], 1))

\* The least-squares solution Eigen's column-pivoting Householder QR returns,
\* in exact arithmetic:
\*  - each step pivots the column maxCoeff(&index) finds, so a column whose
\*    norm is NaN is pivoted only when no column before it is left;
\*  - the pivots before the first negligible one (nonzeroPivots) are used;
\*    a zero or NaN threshold makes no pivot negligible, and the triangular
\*    solve then divides by the zero pivots of a zero X;
\*  - the coefficients of the columns pivoted first solve the least-squares
\*    problem over these columns, the coefficients of the other columns are
\*    set to 0, whatever these columns hold;
\*  - a non-finite cell in a column that is used, or in y, makes every
\*    coefficient non-finite (the reflector of such a column is taken to be
\*    a proper one: the column is not zero below its pivot row).
ColPivHouseholderQrSolve(X, y) ==
    SolveFinite(GramMatrix(X), Moments(X, y), y, X.cols)

\* Mutant of ExtractConstants: the index into beta is never advanced.
ExtractConstants_NoIncrement(beta, includeStaticFriction, includeAcceleration) ==
    [kS |-> IF includeStaticFriction THEN beta[1] ELSE Zero,
     kV |-> beta[1],
     kA |-> IF includeAcceleration THEN beta[1] ELSE Zero]

\* identify, "Extract constants": the coefficients by name
ExtractConstants(beta, includeStaticFriction, includeAcceleration) ==
    LET idx0 == 1
        idx1 == IF includeStaticFriction THEN idx0 + 1 ELSE idx0
        idx2 == idx1 + 1
    IN  FeedforwardConstants(
            IF includeStaticFriction THEN beta[idx0] ELSE Zero,
            beta[idx1],
            IF includeAcceleration THEN beta[idx2] ELSE Zero)

\* Mutant of MinDataPoints: identify accepts two samples.
MinDataPoints_Two == 3 - 1

\* identify: "Need at least 3 data points for meaningful identification"
MinDataPoints == 3

\* identify, after the solve: the check of beta, the coefficients and the
\* R-squared it stores when beta is finite.
FitResult(X, y, beta, includeStaticFriction, includeAcceleration) ==
    IF ~AllFinite(beta)
    THEN [allFinite |-> FALSE, beta |-> beta,
          constants |-> FeedforwardConstants(Zero, Zero, Zero),
          rSquared |-> Zero]
    ELSE [allFinite |-> TRUE, beta |-> beta,
          constants |-> ExtractConstants(beta, includeStaticFriction,
                                         includeAcceleration),
          rSquared |-> calculateRSquared(MatVec(X, beta), y)]

SolveAndFit(X, y, includeStaticFriction, includeAcceleration) ==
    FitResult(X, y, ColPivHouseholderQrSolve(X, y),
              includeStaticFriction, includeAcceleration)

\* identify, the body of its try block.
Regression(points, includeStaticFriction, includeAcceleration) ==
    SolveAndFit(buildDesignMatrix(points, includeStaticFriction, includeAcceleration),
                buildResponseVector(points),
                includeStaticFriction, includeAcceleration)

\* Regression is a function of the store and the two flags alone; it is
\* tabulated once for the stores identify accepts.
FittableStores == UNION { [1..k -> Samples] : k \in MinDataPoints..MaxSamples }

\* ---- stores of FitStoreSize samples for the fits of FitSpec
\* Number of samples of these stores.
FitStoreSize == 5

\* Samples that all have the voltage 3.0: their (velocity, acceleration).
FitMotions == { << Num(1), Num(2) >>, << Num(0), Num(0) >>, << Num(-1), Num(1) >> }

ConstantVoltageSamples == { DataPoint(Num(3), m[1], m[2], Zero) : m \in FitMotions }

ConstantVoltageStores == [1..FitStoreSize -> ConstantVoltageSamples]

\* Samples generated without noise: the coefficients that generate them and
\* the (velocity, acceleration) pairs they are generated at.
GenCoefficients ==
    { FeedforwardConstants(Num(2), Num(1), Num(1)),
      FeedforwardConstants(Num(1), Rat(1, 2), Num(-1)) }

GenMotions ==
    << << Num(1), Num(-2) >>, << Num(-1), Num(4) >>, << Num(2), Num(-3) >>,
       << Num(-2), Num(5) >>, << Num(3), Num(-4) >>, << Num(0), Num(2) >>,
       << Num(-3), Num(1) >> >>

\* The choices of FitStoreSize of these pairs, in the order of GenMotions.
GenSelections ==
    { sel \in [1..FitStoreSize -> 1..Len(GenMotions)] :
        \A i \in 1..(FitStoreSize - 1) : sel[i] < sel[i + 1] }

\* addDataPoint(k.calculate(v, a), v, a, i) for the i-th chosen pair (v, a)
GeneratedStore(k, sel) ==
    [i \in 1..FitStoreSize |->
        DataPoint(calculate(k, GenMotions[sel[i]][1], GenMotions[sel[i]][2]),
                  GenMotions[sel[i]][1], GenMotions[sel[i]][2], Num(i))]

GeneratedStores == { GeneratedStore(k, sel) : k \in GenCoefficients, sel \in GenSelections }

FitStores == ConstantVoltageStores \cup GeneratedStores

RegressionTable ==
    [key \in FittableStores \X BOOLEAN \X BOOLEAN |->
        Regression(key[1], key[2], key[3])] @@ << >>

FitTable ==
    [key \in FitStores \X BOOLEAN \X BOOLEAN |->
        Regression(key[1], key[2], key[3])] @@ << >>

\* The tabulated Regression of a store.
Fitted(points, includeStaticFriction, includeAcceleration) ==
    IF points \in FitStores
    THEN FitTable[<< points, includeStaticFriction, includeAcceleration >>]
    ELSE IF points \in FittableStores
    THEN RegressionTable[<< points, includeStaticFriction, includeAcceleration >>]
    ELSE Regression(points, includeStaticFriction, includeAcceleration)

\* ------------------------------------------------------------- operations
\* The record of a call: the member function, its arguments and its result.
\* Two more fields say what the call follows: for an identify, repeated says
\* that the call before it was identify with the same arguments; for a call
\* that changes the store, afterFit says that the call before it was an
\* identify that returned true.
Called(op, args, ret) ==
    [op |-> op, args |-> args, ret |-> ret, repeated |-> FALSE, afterFit |-> FALSE]

CalledIdentify(args, ret) ==
    [Called("identify", args, ret) EXCEPT
        !.repeated = (call.op = "identify" /\ call.args = args)]

CalledMutator(op, args) ==
    [Called(op, args, TRUE) EXCEPT
        !.afterFit = (call.op = "identify" /\ call.ret = TRUE)]

\* No command has been issued to the motor yet.
NoCommand == [op |-> "none", voltage |-> 0]

\* The variables of a program whose opcontrol task stands at start and has
\* not taken a step: the initializers of the globals and locals.
ProgramInit(start) ==
    /\ pc = start
    /\ motor = NoCommand
    /\ level = 0
    /\ elapsed = 0
    /\ startRequested = FALSE
    /\ consistencyTestRequested = FALSE
    /\ isCharacterizing = FALSE
    /\ test = 0
    /\ previousVelocity = Zero
    /\ previousTime = Zero
    /\ readings = << >>
    /\ characterizationStarted = FALSE
    /\ velocityHistory = << >>
    /\ timeHistory = << >>
    /\ lastSampleTime = 0

\* SystemIdentification() : rSquared(0.0), isIdentified(false) {}
\* The object on its own: no program runs.
Init ==
    /\ dataPoints = << >>
    /\ constants = FeedforwardConstants(Zero, Zero, Zero)
    /\ rSquared = Zero
    /\ isIdentified = FALSE
    /\ call = [op |-> "SystemIdentification", args |-> << >>, ret |-> TRUE,
               repeated |-> FALSE, afterFit |-> FALSE]
    /\ ProgramInit("none")

\* Mutant of addDataPoint: the fit is not invalidated.
addDataPoint_KeepsIdentified(voltage, velocity, acceleration, timestamp) ==
    /\ Len(dataPoints) < MaxSamples
    /\ dataPoints' = Append(dataPoints, DataPoint(voltage, velocity, acceleration, timestamp))
    /\ call' = CalledMutator("addDataPoint", << voltage, velocity, acceleration, timestamp >>)
    /\ UNCHANGED << constants, rSquared, isIdentified >>

\* void addDataPoint(double voltage, double velocity, double acceleration, double timestamp)
addDataPoint(voltage, velocity, acceleration, timestamp) ==
    /\ Len(dataPoints) < MaxSamples
    /\ dataPoints' = Append(dataPoints, DataPoint(voltage, velocity, acceleration, timestamp))
    /\ isIdentified' = FALSE
    /\ call' = CalledMutator("addDataPoint", << voltage, velocity, acceleration, timestamp >>)
    /\ UNCHANGED << constants, rSquared >>

\* Mutant of addDataPointStruct: the fit is not invalidated.
addDataPointStruct_KeepsIdentified(point) ==
    /\ Len(dataPoints) < MaxSamples
    /\ dataPoints' = Append(dataPoints, point)
    /\ call' = CalledMutator("addDataPoint(point)", << point >>)
    /\ UNCHANGED << constants, rSquared, isIdentified >>

\* void addDataPoint(const DataPoint& point)
addDataPointStruct(point) ==
    /\ Len(dataPoints) < MaxSamples
    /\ dataPoints' = Append(dataPoints, point)
    /\ isIdentified' = FALSE
    /\ call' = CalledMutator("addDataPoint(point)", << point >>)
    /\ UNCHANGED << constants, rSquared >>

\* Mutant of clearData: the samples are dropped, the fit is not invalidated.
clearData_KeepsIdentified ==
    /\ dataPoints' = << >>
    /\ call' = CalledMutator("clearData", << >>)
    /\ UNCHANGED << constants, rSquared, isIdentified >>

\* Mutant of clearData: the coefficients and the R-squared are reset too.
clearData_ResetsFit ==
    /\ dataPoints' = << >>
    /\ isIdentified' = FALSE
    /\ constants' = FeedforwardConstants(Zero, Zero, Zero)
    /\ rSquared' = Zero
    /\ call' = CalledMutator("clearData", << >>)

\* Mutant of clearData: the fit is invalidated, the samples are kept.
clearData_KeepsSamples ==
    /\ isIdentified' = FALSE
    /\ call' = CalledMutator("clearData", << >>)
    /\ UNCHANGED << dataPoints, constants, rSquared >>

\* void clearData()
clearData ==
    /\ dataPoints' = << >>
    /\ isIdentified' = FALSE
    /\ call' = CalledMutator("clearData", << >>)
    /\ UNCHANGED << constants, rSquared >>

\* Mutant of identify: a solve that fails resets the coefficients and the
\* R-squared.
identify_ResetsOnFailure(includeStaticFriction, includeAcceleration) ==
    LET args == << includeStaticFriction, includeAcceleration >>
    IN  IF Len(dataPoints) < MinDataPoints
        THEN /\ call' = CalledIdentify(args, FALSE)
             /\ UNCHANGED << dataPoints, constants, rSquared, isIdentified >>
        ELSE LET fit == Fitted(dataPoints, includeStaticFriction, includeAcceleration)
             IN  IF ~fit.allFinite
                 THEN /\ call' = CalledIdentify(args, FALSE)
                      /\ constants' = FeedforwardConstants(Zero, Zero, Zero)
                      /\ rSquared' = Zero
                      /\ UNCHANGED << dataPoints, isIdentified >>
                 ELSE /\ constants' = fit.constants
                      /\ rSquared' = fit.rSquared
                      /\ isIdentified' = TRUE
                      /\ call' = CalledIdentify(args, TRUE)
                      /\ UNCHANGED dataPoints

\* Mutant of identify: a fit whose R-squared is not positive is refused.
identify_RejectsPoorFit(includeStaticFriction, includeAcceleration) ==
    LET args == << includeStaticFriction, includeAcceleration >>
    IN  IF Len(dataPoints) < MinDataPoints
        THEN /\ call' = CalledIdentify(args, FALSE)
             /\ UNCHANGED << dataPoints, constants, rSquared, isIdentified >>
        ELSE LET fit == Fitted(dataPoints, includeStaticFriction, includeAcceleration)
             IN  IF ~fit.allFinite \/ ~GtZero(fit.rSquared)
                 THEN /\ call' = CalledIdentify(args, FALSE)
                      /\ UNCHANGED << dataPoints, constants, rSquared, isIdentified >>
                 ELSE /\ constants' = fit.constants
                      /\ rSquared' = fit.rSquared
                      /\ isIdentified' = TRUE
                      /\ call' = CalledIdentify(args, TRUE)
                      /\ UNCHANGED dataPoints

\* Mutant of identify: an identified model is not fitted again.
identify_SkipWhenIdentified(includeStaticFriction, includeAcceleration) ==
    LET args == << includeStaticFriction, includeAcceleration >>
    IN  IF Len(dataPoints) < MinDataPoints \/ isIdentified
        THEN /\ call' = CalledIdentify(args, FALSE)
             /\ UNCHANGED << dataPoints, constants, rSquared, isIdentified >>
        ELSE LET fit == Fitted(dataPoints, includeStaticFriction, includeAcceleration)
             IN  IF ~fit.allFinite
                 THEN /\ call' = CalledIdentify(args, FALSE)
                      /\ UNCHANGED << dataPoints, constants, rSquared, isIdentified >>
                 ELSE /\ constants' = fit.constants
                      /\ rSquared' = fit.rSquared
                      /\ isIdentified' = TRUE
                      /\ call' = CalledIdentify(args, TRUE)
                      /\ UNCHANGED dataPoints

\* bool identify(bool includeStaticFriction, bool includeAcceleration)
identify(includeStaticFriction, includeAcceleration) ==
    LET args == << includeStaticFriction, includeAcceleration >>
    IN  IF Len(dataPoints) < MinDataPoints
        THEN /\ call' = CalledIdentify(args, FALSE)
             /\ UNCHANGED << dataPoints, constants, rSquared, isIdentified >>
        ELSE LET fit == Fitted(dataPoints, includeStaticFriction, includeAcceleration)
             IN  IF ~fit.allFinite
                 THEN /\ call' = CalledIdentify(args, FALSE)
                      /\ UNCHANGED << dataPoints, constants, rSquared, isIdentified >>
                 ELSE /\ constants' = fit.constants
                      /\ rSquared' = fit.rSquared
                      /\ isIdentified' = TRUE
                      /\ call' = CalledIdentify(args, TRUE)
                      /\ UNCHANGED dataPoints

\* Mutant of predictVoltage: no check of isIdentified.
predictVoltage_NoGuard(velocity, acceleration) ==
    calculate(constants, velocity, acceleration)

\* double predictVoltage(double velocity, double acceleration) const
predictVoltage(velocity, acceleration) ==
    IF ~isIdentified THEN Zero
    ELSE calculate(constants, velocity, acceleration)

\* Mutant of calculateError: the operands of the subtraction exchanged.
calculateError_Reversed(actualVoltage, velocity, acceleration) ==
    Sub(predictVoltage(velocity, acceleration), actualVoltage)

\* double calculateError(double actualVoltage, double velocity, double acceleration) const
calculateError(actualVoltage, velocity, acceleration) ==
    Sub(actualVoltage, predictVoltage(velocity, acceleration))

\* Eigen::MatrixXd getDesignMatrix(bool, bool) const
getDesignMatrix(includeStaticFriction, includeAcceleration) ==
    buildDesignMatrix(dataPoints, includeStaticFriction, includeAcceleration)

\* Eigen::VectorXd getResponseVector() const
getResponseVector == buildResponseVector(dataPoints)

\* A call of a const member function: only its result is recorded.
CallPredictVoltage(velocity, acceleration) ==
    /\ call' = Called("predictVoltage", << velocity, acceleration >>,
                      predictVoltage(velocity, acceleration))
    /\ UNCHANGED << dataPoints, constants, rSquared, isIdentified >>

CallCalculateError(actualVoltage, velocity, acceleration) ==
    /\ call' = Called("calculateError", << actualVoltage, velocity, acceleration >>,
                      calculateError(actualVoltage, velocity, acceleration))
    /\ UNCHANGED << dataPoints, constants, rSquared, isIdentified >>

CallGetDesignMatrix(includeStaticFriction, includeAcceleration) ==
    /\ call' = Called("getDesignMatrix", << includeStaticFriction, includeAcceleration >>,
                      getDesignMatrix(includeStaticFriction, includeAcceleration))
    /\ UNCHANGED << dataPoints, constants, rSquared, isIdentified >>

CallGetResponseVector ==
    /\ call' = Called("getResponseVector", << >>, getResponseVector)
    /\ UNCHANGED << dataPoints, constants, rSquared, isIdentified >>

\* size_t getDataPointCount() const
getDataPointCount == Len(dataPoints)

\* FeedforwardConstants getConstants() const
getConstants == constants

\* double getRSquared() const
getRSquared == rSquared

\* bool isSystemIdentified() const
isSystemIdentified == isIdentified

CallGetDataPointCount ==
    /\ call' = Called("getDataPointCount", << >>, getDataPointCount)
    /\ UNCHANGED << dataPoints, constants, rSquared, isIdentified >>

CallGetConstants ==
    /\ call' = Called("getConstants", << >>, getConstants)
    /\ UNCHANGED << dataPoints, constants, rSquared, isIdentified >>

CallGetRSquared ==
    /\ call' = Called("getRSquared", << >>, getRSquared)
    /\ UNCHANGED << dataPoints, constants, rSquared, isIdentified >>

CallIsSystemIdentified ==
    /\ call' = Called("isSystemIdentified", << >>, isSystemIdentified)
    /\ UNCHANGED << dataPoints, constants, rSquared, isIdentified >>

\* ---------------------------------------------------------------- exportToCSV
\* The digit of k at the decimal place 10^e.
Digit(k, e) == ToString((k \div (10 ^ e)) % 10)

\* The six decimals of std::setprecision(6).
Precision == 6

\* micro in 0..999999 as six digits.
SixDigits(micro) ==
    Digit(micro, 5) \o Digit(micro, 4) \o Digit(micro, 3)
        \o Digit(micro, 2) \o Digit(micro, 1) \o Digit(micro, 0)

\* |x| in millionths, the last place rounded to nearest, ties to even.
Millionths(whole, rem, den) ==
    LET scaled == rem * (10 ^ Precision)
        q == scaled \div den
        r == scaled % den
        up == 2 * r > den \/ (2 * r = den /\ q % 2 = 1)
    IN  whole * (10 ^ Precision) + q + (IF up THEN 1 ELSE 0)

\* operator<< of a double under std::fixed << std::setprecision(6).  nanText
\* is what the C library prints for the NaN at hand: "nan" or "-nan", by the
\* sign bit of the NaN.
Fixed(x, nanText) ==
    IF IsNaN(x) THEN nanText
    ELSE IF x.d = 0 THEN (IF x.n > 0 THEN "inf" ELSE "-inf")
    ELSE LET m == Millionths(Abs(x.n) \div x.d, Abs(x.n) % x.d, x.d)
         IN  (IF x.n < 0 THEN "-" ELSE "")
                 \o ToString(m \div (10 ^ Precision)) \o "."
                 \o SixDigits(m % (10 ^ Precision))

NaNTexts == { "nan", "-nan" }

\* file << "Timestamp,Voltage,Velocity,Acceleration\n"
CsvHeader == "Timestamp,Voltage,Velocity,Acceleration\n"

\* Mutant of CsvRow: the fields in the order of the DataPoint constructor.
CsvRow_ConstructorOrder(point, nanText) ==
    Fixed(point.voltage, nanText) \o "," \o Fixed(point.velocity, nanText) \o ","
        \o Fixed(point.acceleration, nanText) \o "," \o Fixed(point.timestamp, nanText)
        \o "\n"

\* exportToCSV, the body of its loop: one line of the file.
CsvRow(point, nanText) ==
    Fixed(point.timestamp, nanText) \o "," \o Fixed(point.voltage, nanText) \o ","
        \o Fixed(point.velocity, nanText) \o "," \o Fixed(point.acceleration, nanText)
        \o "\n"

\* CsvRow is a function of the sample and of the text of a NaN alone; it is
\* tabulated once for the samples of Samples.
CsvRowTable ==
    [key \in Samples \X NaNTexts |-> CsvRow(key[1], key[2])] @@ << >>

CsvLine(point, nanText) ==
    IF point \in Samples THEN CsvRowTable[<< point, nanText >>]
    ELSE CsvRow(point, nanText)

\* bool exportToCSV(const std::string& filename) const: whether the file
\* opened, what the call returns (ok) and the lines it writes to the file.
exportToCSV(opens, nanText) ==
    IF ~opens THEN [opened |-> FALSE, ok |-> FALSE, lines |-> << >>]
    ELSE [opened |-> TRUE, ok |-> TRUE,
          lines |-> << CsvHeader >>
                        \o [i \in 1..Len(dataPoints) |-> CsvLine(dataPoints[i], nanText)]]

\* The file name the example program exports to.
Filenames == { "/usd/motor_data.csv" }

\* Mutant of CallExportToCSV: the store is emptied once it is written.
CallExportToCSV_ClearsStore(filename, opens, nanText) ==
    /\ call' = Called("exportToCSV", << filename >>, exportToCSV(opens, nanText))
    /\ dataPoints' = IF opens THEN << >> ELSE dataPoints
    /\ UNCHANGED << constants, rSquared, isIdentified >>

CallExportToCSV(filename, opens, nanText) ==
    /\ call' = Called("exportToCSV", << filename >>, exportToCSV(opens, nanText))
    /\ UNCHANGED << dataPoints, constants, rSquared, isIdentified >>

\* double calculateRSquared(predicted, actual) const, applied to two vectors
CallCalculateRSquared(predicted, actual) ==
    /\ call' = Called("calculateRSquared", << predicted, actual >>,
                      calculateRSquared(predicted, actual))
    /\ UNCHANGED << dataPoints, constants, rSquared, isIdentified >>

\* A call made on the object by a caller that is none of the two programs.
Next ==
    \/ \E p \in Samples :
            /\ addDataPoint(p.voltage, p.velocity, p.acceleration, p.timestamp)
            /\ UNCHANGED programVars
    \/ \E p \in Samples : addDataPointStruct(p) /\ UNCHANGED programVars
    \/ clearData /\ UNCHANGED programVars
    \/ \E sf \in BOOLEAN, acc \in BOOLEAN : identify(sf, acc) /\ UNCHANGED programVars
    \/ \E m \in Motions : CallPredictVoltage(m[1], m[2]) /\ UNCHANGED programVars
    \/ \E u \in Voltages, m \in Motions :
            CallCalculateError(u, m[1], m[2]) /\ UNCHANGED programVars
    \/ \E sf \in BOOLEAN, acc \in BOOLEAN :
            CallGetDesignMatrix(sf, acc) /\ UNCHANGED programVars
    \/ CallGetResponseVector /\ UNCHANGED programVars
    \/ CallGetDataPointCount /\ UNCHANGED programVars
    \/ CallGetConstants /\ UNCHANGED programVars
    \/ CallGetRSquared /\ UNCHANGED programVars
    \/ CallIsSystemIdentified /\ UNCHANGED programVars
    \/ \E f \in Filenames, opens \in BOOLEAN, nanText \in NaNTexts :
            CallExportToCSV(f, opens, nanText) /\ UNCHANGED programVars

Spec == Init /\ [][Next]_vars

\* ---- calculateRSquared on its own
\* Longest vector handed to calculateRSquared.
MaxVectorLen == 3

RSquaredValues == { Num(0), Num(3) }

RSquaredVectors == UNION { [1..k -> RSquaredValues] : k \in 0..MaxVectorLen }

RSquaredNext ==
    \E predicted \in RSquaredVectors, actual \in RSquaredVectors :
        CallCalculateRSquared(predicted, actual) /\ UNCHANGED programVars

RSquaredSpec == Init /\ [][RSquaredNext]_vars

\* ---- the fits of stores of FitStoreSize samples
\* A model that has just been given the samples of one of the FitStores.
FitInit ==
    /\ dataPoints \in FitStores
    /\ constants = FeedforwardConstants(Zero, Zero, Zero)
    /\ rSquared = Zero
    /\ isIdentified = FALSE
    /\ call = Called("addDataPoint",
                     << dataPoints[FitStoreSize].voltage, dataPoints[FitStoreSize].velocity,
                        dataPoints[FitStoreSize].acceleration,
                        dataPoints[FitStoreSize].timestamp >>, TRUE)
    /\ ProgramInit("none")

FitNext ==
    \/ \E sf \in BOOLEAN, acc \in BOOLEAN : identify(sf, acc) /\ UNCHANGED programVars
    \/ CallGetConstants /\ UNCHANGED programVars
    \/ CallGetRSquared /\ UNCHANGED programVars

FitSpec == FitInit /\ [][FitNext]_vars

\* ================================================================ main.cpp
\* Number of levels of testVoltages a run goes through.
MaxLevels == 3

\* std::vector<int> testVoltages, in millivolts: its first MaxLevels levels.
testVoltages ==
    SubSeq(<< 2000, 6000, 2000, -6000, 0, 12000, 0, -12000, 1000, 3000, -1000, -3000 >>,
           1, MaxLevels)

\* int timePerVoltage, in milliseconds (20000 / totalVoltages in the source).
timePerVoltage == 15

\* pros::delay(10) of the sampling loops.
SamplingDelay == 10

\* Milliseconds that pass between startTime = pros::millis() and the first
\* reading of the clock in the loop.  pros::delay(10) is taken to last 10 ms.
ClockJitter == { 0, 2 }

\* What characterizationMotor.get_actual_velocity() returns.
Velocities == { Num(0), Num(1) }

\* for (int test = 1; test <= 5; ++test)
ConsistencyRuns == 5

\* A command to the motor: the member function called and its argument.
Command(op, voltage) == [op |-> op, voltage |-> voltage]

\* The places of the opcontrol task of main.cpp.
MainPlaces ==
    { "check_start", "start_run", "level", "sample", "identify", "return",
      "check_consistency", "start_consistency", "test", "delay" }

\* A run or a consistency test is executing.
InRun == pc \in { "level", "sample", "identify", "return", "test" }

\* SystemIdentification motorSysId;
Construct ==
    /\ dataPoints' = << >>
    /\ constants' = FeedforwardConstants(Zero, Zero, Zero)
    /\ rSquared' = Zero
    /\ isIdentified' = FALSE

\* void on_center_button(), in the task of the LCD
on_center_button ==
    /\ pc \in MainPlaces
    /\ startRequested' = TRUE
    /\ call' = Called("on_center_button", << >>, TRUE)
    /\ UNCHANGED << objectVars, taskVars, exampleVars, consistencyTestRequested,
                    isCharacterizing, test, previousVelocity, previousTime, readings >>

\* void on_right_button(), in the task of the LCD
on_right_button ==
    /\ pc \in MainPlaces
    /\ consistencyTestRequested' = TRUE
    /\ call' = Called("on_right_button", << >>, TRUE)
    /\ UNCHANGED << objectVars, taskVars, exampleVars, startRequested,
                    isCharacterizing, test, previousVelocity, previousTime, readings >>

\* opcontrol: if (startRequested && !isCharacterizing) { isCharacterizing = true;
CheckStart ==
    /\ pc = "check_start"
    /\ IF startRequested /\ ~isCharacterizing
       THEN isCharacterizing' = TRUE /\ pc' = "start_run"
       ELSE isCharacterizing' = isCharacterizing /\ pc' = "check_consistency"
    /\ UNCHANGED << objectVars, call, motor, level, elapsed, exampleVars, startRequested,
                    consistencyTestRequested, test, previousVelocity, previousTime,
                    readings >>

\* opcontrol: startRequested = false; runMotorCharacterization(); up to the
\* head of the loop over testVoltages.
StartRun ==
    /\ pc = "start_run"
    /\ startRequested' = FALSE
    /\ Construct
    /\ previousVelocity' = Zero
    /\ previousTime' = Zero
    /\ test' = 0
    /\ level' = 1
    /\ pc' = "level"
    /\ call' = Called("runMotorCharacterization", << >>, "started")
    /\ UNCHANGED << motor, elapsed, exampleVars, consistencyTestRequested,
                    isCharacterizing, readings >>

\* The head of the loop over testVoltages, for a level there is:
\* previousVelocity = 0.0; previousTime = 0.0; move_voltage(voltage);
\* startTime = pros::millis();
BeginLevel ==
    /\ pc = "level"
    /\ level <= Len(testVoltages)
    /\ previousVelocity' = Zero
    /\ previousTime' = Zero
    /\ motor' = Command("move_voltage", testVoltages[level])
    /\ elapsed' = 0
    /\ readings' = << >>
    /\ pc' = "sample"
    /\ call' = Called("move_voltage", << testVoltages[level] >>, TRUE)
    /\ UNCHANGED << objectVars, level, exampleVars, startRequested,
                    consistencyTestRequested, isCharacterizing, test >>

\* The head of the loop over testVoltages, once every level is done.
EndLevels ==
    /\ pc = "level"
    /\ level > Len(testVoltages)
    /\ pc' = "identify"
    /\ UNCHANGED << objectVars, call, motor, level, elapsed, exampleVars, mainVars >>

\* 0.001, of if (dt > 0.001)
MinDt == Rat(1, 1000)

\* Mutant of Sample: no check of previousTime > 0.
Sample_NoPreviousCheck(jitter, currentVelocity) ==
    LET now == elapsed + jitter
        currentTime == Rat(now, 1000)
        dt == Sub(currentTime, previousTime)
    IN  /\ pc = "sample"
        /\ now < timePerVoltage
        /\ IF Less(MinDt, dt)
           THEN addDataPoint(Rat(testVoltages[level], 1000), currentVelocity,
                             Div(Sub(currentVelocity, previousVelocity), dt), currentTime)
           ELSE /\ call' = Called("get_actual_velocity", << >>, currentVelocity)
                /\ UNCHANGED objectVars
        /\ previousVelocity' = currentVelocity
        /\ previousTime' = currentTime
        /\ readings' = Append(readings, [time |-> currentTime, velocity |-> currentVelocity])
        /\ elapsed' = now + SamplingDelay
        /\ UNCHANGED << pc, motor, level, exampleVars, startRequested,
                        consistencyTestRequested, isCharacterizing, test >>

\* One turn of while (pros::millis() - startTime < timePerVoltage): the
\* reading, the sample appended when previousTime > 0 and dt > 0.001, and
\* pros::delay(10).
Sample(jitter, currentVelocity) ==
    LET now == elapsed + jitter
        currentTime == Rat(now, 1000)
        dt == Sub(currentTime, previousTime)
    IN  /\ pc = "sample"
        /\ now < timePerVoltage
        /\ IF GtZero(previousTime) /\ Less(MinDt, dt)
           THEN addDataPoint(Rat(testVoltages[level], 1000), currentVelocity,
                             Div(Sub(currentVelocity, previousVelocity), dt), currentTime)
           ELSE /\ call' = Called("get_actual_velocity", << >>, currentVelocity)
                /\ UNCHANGED objectVars
        /\ previousVelocity' = currentVelocity
        /\ previousTime' = currentTime
        /\ readings' = Append(readings, [time |-> currentTime, velocity |-> currentVelocity])
        /\ elapsed' = now + SamplingDelay
        /\ UNCHANGED << pc, motor, level, exampleVars, startRequested,
                        consistencyTestRequested, isCharacterizing, test >>

\* Mutant of EndLevel: the motor is not stopped.
EndLevel_KeepsRunning(jitter) ==
    /\ pc = "sample"
    /\ elapsed + jitter >= timePerVoltage
    /\ level' = level + 1
    /\ pc' = "level"
    /\ UNCHANGED << objectVars, call, motor, elapsed, exampleVars, mainVars >>

\* The end of the while loop: characterizationMotor.move_voltage(0); ++i
EndLevel(jitter) ==
    /\ pc = "sample"
    /\ elapsed + jitter >= timePerVoltage
    /\ motor' = Command("move_voltage", 0)
    /\ level' = level + 1
    /\ pc' = "level"
    /\ call' = Called("move_voltage", << 0 >>, TRUE)
    /\ UNCHANGED << objectVars, elapsed, exampleVars, mainVars >>

\* runMotorCharacterization from "Perform system identification" to the end
\* of its body.
FinishRun ==
    /\ pc = "identify"
    /\ test = 0
    /\ identify(TRUE, TRUE)
    /\ pc' = "return"
    /\ UNCHANGED << motor, level, elapsed, exampleVars, mainVars >>

\* The locals of a function that returns, motorSysId among them, are gone:
\* the variables that held them get the values of MainInit.
LocalsGone ==
    /\ Construct
    /\ level' = 0
    /\ elapsed' = 0
    /\ previousVelocity' = Zero
    /\ previousTime' = Zero
    /\ readings' = << >>

\* Mutant of ReturnRun: the request is taken back when the run returns.
ReturnRun_TakesRequestBack ==
    /\ pc = "return"
    /\ LocalsGone
    /\ isCharacterizing' = FALSE
    /\ startRequested' = FALSE
    /\ pc' = "check_consistency"
    /\ call' = Called("runMotorCharacterization", << >>, "returned")
    /\ UNCHANGED << motor, exampleVars, consistencyTestRequested, test >>

\* The return of runMotorCharacterization, and isCharacterizing = false in
\* opcontrol.
ReturnRun ==
    /\ pc = "return"
    /\ LocalsGone
    /\ isCharacterizing' = FALSE
    /\ pc' = "check_consistency"
    /\ call' = Called("runMotorCharacterization", << >>, "returned")
    /\ UNCHANGED << motor, exampleVars, startRequested, consistencyTestRequested, test >>

\* opcontrol: if (consistencyTestRequested && !isCharacterizing) {
\*     isCharacterizing = true;
CheckConsistency ==
    /\ pc = "check_consistency"
    /\ IF consistencyTestRequested /\ ~isCharacterizing
       THEN isCharacterizing' = TRUE /\ pc' = "start_consistency"
       ELSE isCharacterizing' = isCharacterizing /\ pc' = "delay"
    /\ UNCHANGED << objectVars, call, motor, level, elapsed, exampleVars, startRequested,
                    consistencyTestRequested, test, previousVelocity, previousTime,
                    readings >>

\* opcontrol: consistencyTestRequested = false; runConsistencyTest(); up to
\* the head of the loop over the tests.
StartConsistency ==
    /\ pc = "start_consistency"
    /\ consistencyTestRequested' = FALSE
    /\ test' = 1
    /\ pc' = "test"
    /\ call' = Called("runConsistencyTest", << >>, "started")
    /\ UNCHANGED << objectVars, motor, level, elapsed, exampleVars, startRequested,
                    isCharacterizing, previousVelocity, previousTime, readings >>

\* The head of the loop over the tests, for a test there is:
\* SystemIdentification motorSysId; up to the head of the loop over
\* testVoltages.
BeginTest ==
    /\ pc = "test"
    /\ test <= ConsistencyRuns
    /\ Construct
    /\ level' = 1
    /\ pc' = "level"
    /\ call' = Called("SystemIdentification", << >>, TRUE)
    /\ UNCHANGED << motor, elapsed, exampleVars, mainVars >>

\* runConsistencyTest: "Perform identification" of one test, and ++test.
FinishTest ==
    /\ pc = "identify"
    /\ test > 0
    /\ identify(TRUE, TRUE)
    /\ test' = test + 1
    /\ pc' = "test"
    /\ UNCHANGED << motor, level, elapsed, exampleVars, startRequested,
                    consistencyTestRequested, isCharacterizing, previousVelocity,
                    previousTime, readings >>

\* runConsistencyTest from "Analyze consistency" to its return, and
\* isCharacterizing = false in opcontrol.
FinishConsistency ==
    /\ pc = "test"
    /\ test > ConsistencyRuns
    /\ LocalsGone
    /\ test' = 0
    /\ isCharacterizing' = FALSE
    /\ pc' = "delay"
    /\ call' = Called("runConsistencyTest", << >>, "returned")
    /\ UNCHANGED << motor, exampleVars, startRequested, consistencyTestRequested >>

\* opcontrol: pros::delay(20); and back to the head of while (true)
Delay ==
    /\ pc = "delay"
    /\ pc' = "check_start"
    /\ UNCHANGED << objectVars, call, motor, level, elapsed, exampleVars, mainVars >>

\* The steps of the task that runs opcontrol.
Opcontrol ==
    \/ CheckStart
    \/ StartRun
    \/ BeginLevel
    \/ EndLevels
    \/ \E jitter \in (IF readings = << >> THEN ClockJitter ELSE { 0 }),
          currentVelocity \in Velocities : Sample(jitter, currentVelocity)
    \/ \E jitter \in (IF readings = << >> THEN ClockJitter ELSE { 0 }) : EndLevel(jitter)
    \/ FinishRun
    \/ ReturnRun
    \/ CheckConsistency
    \/ StartConsistency
    \/ BeginTest
    \/ FinishTest
    \/ FinishConsistency
    \/ Delay

MainNext ==
    \/ on_center_button
    \/ on_right_button
    \/ Opcontrol

\* The program of main.cpp at the start of opcontrol.  No object exists yet:
\* the object variables hold what a constructor would give them.
MainInit ==
    /\ dataPoints = << >>
    /\ constants = FeedforwardConstants(Zero, Zero, Zero)
    /\ rSquared = Zero
    /\ isIdentified = FALSE
    /\ call = Called("opcontrol", << >>, TRUE)
    /\ ProgramInit("check_start")

MainSpec == MainInit /\ [][MainNext]_vars

\* The steps of opcontrol outside runMotorCharacterization and
\* runConsistencyTest.
OpcontrolLoop ==
    \/ CheckStart
    \/ StartRun
    \/ CheckConsistency
    \/ StartConsistency
    \/ Delay

\* The loop of opcontrol is scheduled again and again.  Nothing is assumed of
\* the buttons, nor of the steps inside a run: that runs end is a premise of
\* the claims that need it.
MainFairSpec == MainSpec /\ WF_vars(OpcontrolLoop)

\* ================================== motor_characterization_example.cpp
\* std::vector<double> testVoltages of runMotorCharacterization: the
\* MaxLevels levels from -20 on, the skipped level 0 among them.
exampleVoltages ==
    SubSeq(<< -100, -80, -60, -40, -20, 0, 20, 40, 60, 80, 100 >>, 5, 4 + MaxLevels)

\* int duration_ms of collectMotorData (2000 in the source).
duration_ms == 155

\* int sampleRate_ms of collectMotorData
sampleRate_ms == 50

\* pros::delay(5) of collectMotorData
CollectDelay == 5

\* const int HISTORY_SIZE = 10
HISTORY_SIZE == 10

\* if (std::abs(voltage) < 5) continue;
MinTestVoltage == 5

\* The conversion of a double to the std::int32_t that motor.move takes:
\* towards zero.
ToInt32(x) == Sgn(x.n) * (Abs(x.n) \div x.d)

\* double calculateAcceleration(velocities, times)
calculateAcceleration(velocities, times) ==
    IF Len(velocities) < 2 \/ Len(times) < 2 THEN Zero
    ELSE LET n == Len(velocities)
             dt == Sub(times[n], times[n - 1])
         IN  IF Less(dt, Rat(1, 1000000)) THEN Zero
             ELSE Div(Sub(velocities[n], velocities[n - 1]), dt)

\* The places of the opcontrol task of the example.
ExamplePlaces ==
    { "A", "run", "ex_level", "collect", "ex_identify", "export",
      "B", "feedforward", "X", "Y", "display" }

\* master.get_digital(button)
get_digital(button, pressed) == Called("get_digital", << button >>, pressed)

\* opcontrol: if (master.get_digital(A) && !characterizationStarted) {
\*     characterizationStarted = true;
CheckA(pressed) ==
    /\ pc = "A"
    /\ call' = get_digital("A", pressed)
    /\ IF pressed /\ ~characterizationStarted
       THEN characterizationStarted' = TRUE /\ pc' = "run"
       ELSE characterizationStarted' = characterizationStarted /\ pc' = "B"
    /\ UNCHANGED << objectVars, motor, level, elapsed, mainVars, velocityHistory,
                    timeHistory, lastSampleTime >>

\* runMotorCharacterization: sysId.clearData(); up to the head of the loop
\* over testVoltages.
ClearForRun ==
    /\ pc = "run"
    /\ clearData
    /\ level' = 1
    /\ pc' = "ex_level"
    /\ UNCHANGED << motor, elapsed, mainVars, exampleVars >>

\* The head of the loop over testVoltages for a level that is skipped.
SkipLevel ==
    /\ pc = "ex_level"
    /\ level <= Len(exampleVoltages)
    /\ Abs(exampleVoltages[level]) < MinTestVoltage
    /\ level' = level + 1
    /\ UNCHANGED << objectVars, call, pc, motor, elapsed, mainVars, exampleVars >>

\* The head of the loop over testVoltages for a level that is collected, and
\* collectMotorData up to the head of its while loop.
BeginCollect ==
    /\ pc = "ex_level"
    /\ level <= Len(exampleVoltages)
    /\ Abs(exampleVoltages[level]) >= MinTestVoltage
    /\ velocityHistory' = << >>
    /\ timeHistory' = << >>
    /\ motor' = Command("move", exampleVoltages[level])
    /\ elapsed' = 0
    /\ lastSampleTime' = 0
    /\ pc' = "collect"
    /\ call' = Called("move", << exampleVoltages[level] >>, TRUE)
    /\ UNCHANGED << objectVars, level, mainVars, characterizationStarted >>

\* The last HISTORY_SIZE entries of a history that got one entry more.
Pushed(history, entry) ==
    IF Len(history) + 1 > HISTORY_SIZE
    THEN SubSeq(history, 2, Len(history)) \o << entry >>
    ELSE Append(history, entry)

\* One turn of the while loop of collectMotorData in which no sample is due.
Wait ==
    /\ pc = "collect"
    /\ elapsed < duration_ms
    /\ elapsed - lastSampleTime < sampleRate_ms
    /\ elapsed' = elapsed + CollectDelay
    /\ UNCHANGED << objectVars, call, pc, motor, level, mainVars, exampleVars >>

\* One turn of the while loop of collectMotorData in which a sample is due:
\* the reading, the histories, the acceleration, the sample appended from
\* the second reading on, and pros::delay(5).
Collect(velocity) ==
    /\ pc = "collect"
    /\ elapsed < duration_ms
    /\ elapsed - lastSampleTime >= sampleRate_ms
    /\ velocityHistory' = Pushed(velocityHistory, velocity)
    /\ timeHistory' = Pushed(timeHistory, Rat(elapsed, 1000))
    /\ lastSampleTime' = elapsed
    /\ IF Len(velocityHistory') >= 2
       THEN addDataPoint(Num(exampleVoltages[level]), velocity,
                         calculateAcceleration(velocityHistory', timeHistory'),
                         Rat(elapsed, 1000))
       ELSE /\ call' = Called("get_actual_velocity", << >>, velocity)
            /\ UNCHANGED objectVars
    /\ elapsed' = elapsed + CollectDelay
    /\ UNCHANGED << pc, motor, level, mainVars, characterizationStarted >>

\* The end of collectMotorData: motor.move(0); the count printed; and
\* pros::delay(1000) of runMotorCharacterization.
EndCollect ==
    /\ pc = "collect"
    /\ elapsed >= duration_ms
    /\ motor' = Command("move", 0)
    /\ level' = level + 1
    /\ pc' = "ex_level"
    /\ call' = Called("getDataPointCount", << >>, getDataPointCount)
    /\ UNCHANGED << objectVars, elapsed, mainVars, exampleVars >>

\* The head of the loop over testVoltages, once every level is done.
EndCollection ==
    /\ pc = "ex_level"
    /\ level > Len(exampleVoltages)
    /\ pc' = "ex_identify"
    /\ UNCHANGED << objectVars, call, motor, level, elapsed, mainVars, exampleVars >>

\* runMotorCharacterization: bool success = sysId.identify(true, true);
IdentifyForRun ==
    /\ pc = "ex_identify"
    /\ identify(TRUE, TRUE)
    /\ pc' = IF call'.ret THEN "export" ELSE "B"
    /\ UNCHANGED << motor, level, elapsed, mainVars, exampleVars >>

\* runMotorCharacterization: sysId.exportToCSV("/usd/motor_data.csv"), and
\* the return to opcontrol.
ExportForRun(filename, opens, nanText) ==
    /\ pc = "export"
    /\ CallExportToCSV(filename, opens, nanText)
    /\ pc' = "B"
    /\ UNCHANGED << motor, level, elapsed, mainVars, exampleVars >>

\* opcontrol: if (master.get_digital(B) && sysId.isSystemIdentified()) and
\* testFeedforwardConstants up to its monitoring loop.
CheckB(pressed) ==
    /\ pc = "B"
    /\ call' = get_digital("B", pressed)
    /\ IF pressed /\ isSystemIdentified
       THEN /\ motor' = Command("move", ToInt32(calculate(getConstants, Num(50), Zero)))
            /\ pc' = "feedforward"
       ELSE /\ motor' = motor
            /\ pc' = "X"
    /\ UNCHANGED << objectVars, level, elapsed, mainVars, exampleVars >>

\* testFeedforwardConstants: the end of the monitoring loop, motor.move(0).
EndFeedforward ==
    /\ pc = "feedforward"
    /\ motor' = Command("move", 0)
    /\ pc' = "X"
    /\ call' = Called("move", << 0 >>, TRUE)
    /\ UNCHANGED << objectVars, level, elapsed, mainVars, exampleVars >>

\* opcontrol: if (master.get_digital(X)) { the results printed }
CheckX(pressed) ==
    /\ pc = "X"
    /\ call' = get_digital("X", pressed)
    /\ pc' = "Y"
    /\ UNCHANGED << objectVars, motor, level, elapsed, mainVars, exampleVars >>

\* Mutant of CheckY: characterizationStarted is left as it is.
CheckY_KeepsLatch(pressed) ==
    /\ pc = "Y"
    /\ IF pressed
       THEN clearData
       ELSE call' = get_digital("Y", pressed) /\ UNCHANGED objectVars
    /\ pc' = "display"
    /\ UNCHANGED << motor, level, elapsed, mainVars, exampleVars >>

\* opcontrol: if (master.get_digital(Y)) { sysId.clearData();
\*     characterizationStarted = false; }
CheckY(pressed) ==
    /\ pc = "Y"
    /\ IF pressed
       THEN clearData /\ characterizationStarted' = FALSE
       ELSE /\ call' = get_digital("Y", pressed)
            /\ UNCHANGED << objectVars, characterizationStarted >>
    /\ pc' = "display"
    /\ UNCHANGED << motor, level, elapsed, mainVars, velocityHistory, timeHistory,
                    lastSampleTime >>

\* opcontrol: the status on the LCD, pros::delay(20), and back to the head
\* of while (true).
Display ==
    /\ pc = "display"
    /\ pc' = "A"
    /\ UNCHANGED << objectVars, call, motor, level, elapsed, mainVars, exampleVars >>

ExampleNext ==
    \/ \E pressed \in BOOLEAN : CheckA(pressed)
    \/ ClearForRun
    \/ SkipLevel
    \/ BeginCollect
    \/ Wait
    \/ \E velocity \in Velocities : Collect(velocity)
    \/ EndCollect
    \/ EndCollection
    \/ IdentifyForRun
    \/ \E f \in Filenames, opens \in BOOLEAN, nanText \in NaNTexts :
            ExportForRun(f, opens, nanText)
    \/ \E pressed \in BOOLEAN : CheckB(pressed)
    \/ EndFeedforward
    \/ \E pressed \in BOOLEAN : CheckX(pressed)
    \/ \E pressed \in BOOLEAN : CheckY(pressed)
    \/ Display

\* The example at the start of opcontrol: SystemIdentification sysId; and
\* the initializers of the other globals.
ExampleInit ==
    /\ dataPoints = << >>
    /\ constants = FeedforwardConstants(Zero, Zero, Zero)
    /\ rSquared = Zero
    /\ isIdentified = FALSE
    /\ call = Called("opcontrol", << >>, TRUE)
    /\ ProgramInit("A")

ExampleSpec == ExampleInit /\ [][ExampleNext]_vars

\* ---- either program
ProgramsInit == MainInit \/ ExampleInit

ProgramsNext == MainNext \/ ExampleNext

ProgramsSpec == ProgramsInit /\ [][ProgramsNext]_vars

\* ================================================================= claims
\* The sign the source gives a velocity: +1 when it is > 0, -1 otherwise.
SignOf(velocity) == IF velocity.n > 0 THEN One ELSE MinusOne

BoolNum(b) == IF b THEN 1 ELSE 0

\* C1: an identify called on a store of 0, 1 or 2 samples returns false, and
\* isIdentified() is false after it, whatever the two flags are.
C1_IdentifyNeedsThreeSamples ==
    (call.op = "identify" /\ Len(dataPoints) \in {0, 1, 2})
        => (call.ret = FALSE /\ ~isIdentified)

\* C1 witness: identify has just refused a store of two samples, in a model
\* that still holds the coefficients of an earlier fit.
C1_Witness ==
    /\ call.op = "identify"
    /\ Len(dataPoints) = 2
    /\ call.ret = FALSE
    /\ ~isIdentified
    /\ constants.kV # Zero

\* C2: after either addDataPoint overload and after clearData isIdentified()
\* is false, and it turns from false to true only in an identify call that
\* returns true.
C2_AppendAndClearInvalidate ==
    [][ /\ (call'.op \in {"addDataPoint", "addDataPoint(point)", "clearData"})
               => ~isIdentified'
        /\ (~isIdentified /\ isIdentified')
               => (call'.op = "identify" /\ call'.ret = TRUE) ]_vars

\* C2 witness: one sample appended right after an identify that returned
\* true, and the model is not identified.
C2_Witness ==
    /\ call.op = "addDataPoint"
    /\ call.afterFit
    /\ ~isIdentified
    /\ Len(dataPoints) = 4

\* C3 (as claimed): when identify returns false on a store of at least three
\* samples, that is because the solved vector is not finite, isIdentified()
\* is false afterwards.
C3_SolveFailureUnidentifies ==
    (call.op = "identify" /\ call.ret = FALSE /\ Len(dataPoints) >= 3)
        => ~isIdentified

\* C4: a step that ends with isIdentified() true is either an identify that
\* returns true and leaves the store as it found it, or a step of an
\* identified model that changes neither the store nor the coefficients nor
\* R-squared; and the coefficients and R-squared of an identified model are
\* those of a fit of exactly the store it holds.
C4_FitMatchesStore ==
    [][ isIdentified' =>
          /\ \/ /\ call'.op = "identify"
                /\ call'.ret = TRUE
                /\ dataPoints' = dataPoints
             \/ /\ isIdentified
                /\ dataPoints' = dataPoints
                /\ constants' = constants
                /\ rSquared' = rSquared
          /\ Len(dataPoints') >= 3
          /\ \E sf \in BOOLEAN, acc \in BOOLEAN :
                LET fit == RegressionTable[<< dataPoints', sf, acc >>]
                IN  /\ fit.allFinite
                    /\ constants' = fit.constants
                    /\ rSquared' = fit.rSquared ]_vars

\* C4 witness: a model that is still identified some calls after its fit.
C4_Witness ==
    /\ isIdentified
    /\ call.op = "calculateError"
    /\ Len(dataPoints) = 4
    /\ constants.kS # Zero

\* C5: in an unidentified model predictVoltage returns 0.0 for every
\* argument, whatever coefficients are stored.
C5_UnidentifiedPredictsZero ==
    ~isIdentified =>
        /\ \A m \in Motions : predictVoltage(m[1], m[2]) = Zero
        /\ call.op = "predictVoltage" => call.ret = Zero

\* C5 witness: predictVoltage returned 0.0 for a non-zero velocity in an
\* unidentified model whose stored kV is not zero.
C5_Witness ==
    /\ call.op = "predictVoltage"
    /\ ~isIdentified
    /\ call.args = << Num(2), Num(1) >>
    /\ constants.kV # Zero
    /\ call.ret = Zero

\* C6: in an identified model predictVoltage(v, a) is kS*s + kV*v + kA*a with
\* s = +1 for v > 0 and s = -1 otherwise, so predictVoltage(0, 0) is -kS.
C6_IdentifiedPrediction ==
    (call.op = "predictVoltage" /\ isIdentified) =>
        LET v == call.args[1]
            a == call.args[2]
        IN  /\ call.ret = Add(Add(Mul(constants.kS, SignOf(v)), Mul(constants.kV, v)),
                              Mul(constants.kA, a))
            /\ (v = Zero /\ a = Zero) => call.ret = Neg(constants.kS)

\* C6 witness: predictVoltage(0, 0) returned -kS for a non-zero kS.
C6_Witness ==
    /\ call.op = "predictVoltage"
    /\ isIdentified
    /\ call.args = << Zero, Zero >>
    /\ constants.kS # Zero
    /\ call.ret = Neg(constants.kS)

\* C7: calculateError(actualVoltage, v, a) is actualVoltage minus
\* predictVoltage(v, a); in an unidentified model it is actualVoltage.
C7_ErrorIsActualMinusPredicted ==
    call.op = "calculateError" =>
        LET u == call.args[1]
            v == call.args[2]
            a == call.args[3]
        IN  /\ call.ret = Sub(u, predictVoltage(v, a))
            /\ ~isIdentified => call.ret = u

\* C7 witness: calculateError returned something other than the actual
\* voltage in an identified model.
C7_Witness ==
    /\ call.op = "calculateError"
    /\ isIdentified
    /\ call.ret # call.args[1]

\* C8: an identify that follows an identify with the same flags, nothing
\* called in between, returns what the first returned and leaves the
\* coefficients, R-squared and isIdentified() as the first left them.
C8_IdentifyTwice ==
    [][ (call.op = "identify" /\ call'.op = "identify" /\ call'.args = call.args)
            => /\ call'.ret = call.ret
               /\ constants' = constants
               /\ rSquared' = rSquared
               /\ isIdentified' = isIdentified ]_vars

\* C8 witness: the second of two identical identify calls has returned true.
C8_Witness ==
    /\ call.op = "identify"
    /\ call.repeated
    /\ call.ret = TRUE
    /\ isIdentified

\* C9: after an identify that returns true kS is 0.0 when static friction is
\* not included and kA is 0.0 when acceleration is not included, and the
\* included terms are the entries of the solved vector in the order
\* static friction, velocity, acceleration.
C9_CoefficientsByName ==
    (call.op = "identify" /\ call.ret = TRUE) =>
        LET sf == call.args[1]
            acc == call.args[2]
            beta == RegressionTable[<< dataPoints, sf, acc >>].beta
        IN  /\ Len(beta) = 1 + BoolNum(sf) + BoolNum(acc)
            /\ constants.kS = (IF sf THEN beta[1] ELSE Zero)
            /\ constants.kV = (IF sf THEN beta[2] ELSE beta[1])
            /\ constants.kA = (IF acc THEN beta[Len(beta)] ELSE Zero)

\* C9 witness: a velocity-only identify has returned true with kS and kA 0.0
\* and kV not 0.0.
C9_Witness ==
    /\ call.op = "identify"
    /\ call.ret = TRUE
    /\ call.args = << FALSE, FALSE >>
    /\ constants.kS = Zero
    /\ constants.kA = Zero
    /\ constants.kV # Zero

\* C10: for every store and both flags the design matrix has one row per
\* sample and 1 + [static friction] + [acceleration] columns, row i being
\* the sign of v_i (if included), v_i, a_i (if included); entry i of the
\* response vector is the voltage of sample i.
C10_DesignMatrixShape ==
    \A sf \in BOOLEAN, acc \in BOOLEAN :
        LET X == getDesignMatrix(sf, acc)
            y == getResponseVector
            expected(p) ==
                IF sf /\ acc THEN << SignOf(p.velocity), p.velocity, p.acceleration >>
                ELSE IF sf THEN << SignOf(p.velocity), p.velocity >>
                ELSE IF acc THEN << p.velocity, p.acceleration >>
                ELSE << p.velocity >>
        IN  /\ X.rows = Len(dataPoints)
            /\ X.cols = 1 + BoolNum(sf) + BoolNum(acc)
            /\ Len(X.cell) = Len(dataPoints)
            /\ Len(y) = Len(dataPoints)
            /\ \A i \in 1..Len(dataPoints) :
                  /\ X.cell[i] = expected(dataPoints[i])
                  /\ y[i] = dataPoints[i].voltage

\* C10 witness: getDesignMatrix(true, true) returned, for a store of three
\* samples whose second has velocity 0, a second row that starts with -1.
C10_Witness ==
    /\ call.op = "getDesignMatrix"
    /\ call.args = << TRUE, TRUE >>
    /\ Len(dataPoints) = 3
    /\ dataPoints[2].velocity = Zero
    /\ call.ret.rows = 3
    /\ call.ret.cols = 3
    /\ call.ret.cell[2] = << MinusOne, Zero, dataPoints[2].acceleration >>

\* C11 (as claimed): getDesignMatrix on a store of fewer than three samples
\* returns an empty matrix, not one with a row per sample.
C11_BuilderRejectsSmallStores ==
    (call.op = "getDesignMatrix" /\ Len(dataPoints) < 3)
        => (call.ret.rows = 0 /\ call.ret.cell = << >>)

\* C12 (as claimed): identify returns false on every store of at least three
\* samples whose design matrix, built for the flags of the call, has a cell
\* that is not finite.
C12_NonFiniteCellFails ==
    (call.op = "identify" /\ Len(dataPoints) >= 3) =>
        LET X == getDesignMatrix(call.args[1], call.args[2])
        IN  (\E i \in 1..X.rows : \E j \in 1..X.cols : ~IsFinite(X.cell[i][j]))
                => call.ret = FALSE

\* C13: an identify on a store of at least three samples whose solved vector
\* is finite in every entry returns true and leaves isIdentified() true,
\* whatever R-squared comes out and whatever the rank of the design matrix.
C13_FiniteSolutionSucceeds ==
    (call.op = "identify" /\ Len(dataPoints) >= 3
        /\ AllFinite(RegressionTable[<< dataPoints, call.args[1], call.args[2] >>].beta))
        => (call.ret = TRUE /\ isIdentified)

\* C13 witness: identify(true, false) has returned true on a store whose sign
\* and velocity columns are dependent (one pivot of two is used), with a
\* negative R-squared.
C13_Witness ==
    /\ call.op = "identify"
    /\ call.args = << TRUE, FALSE >>
    /\ call.ret = TRUE
    /\ isIdentified
    /\ Less(rSquared, Zero)
    /\ NonzeroPivots(GramMatrix(getDesignMatrix(TRUE, FALSE)),
                     ColsPermutation(GramMatrix(getDesignMatrix(TRUE, FALSE)),
                                     << 1, 2 >>, 1)) = 1

\* C16 (as claimed): the R-squared the model stores is a number from 0 to 1
\* in every reachable state.
C16_RSquaredInUnitRange ==
    IsFinite(rSquared) /\ ~Less(rSquared, Zero) /\ ~Less(One, rSquared)

\* C18: an exportToCSV whose file opens returns true and writes the header
\* line and then one line per sample, in the order of the store, each line
\* the sample's timestamp, voltage, velocity and acceleration in this order,
\* so count() + 1 lines in all; an exportToCSV whose file does not open
\* returns false and writes nothing.
C18_ExportWritesHeaderAndRows ==
    call.op = "exportToCSV" =>
        IF call.ret.opened
        THEN /\ call.ret.ok = TRUE
             /\ Len(call.ret.lines) = Len(dataPoints) + 1
             /\ call.ret.lines[1] = "Timestamp,Voltage,Velocity,Acceleration\n"
             /\ \E nanText \in NaNTexts : \A i \in 1..Len(dataPoints) :
                    call.ret.lines[i + 1] =
                        Fixed(dataPoints[i].timestamp, nanText) \o ","
                        \o Fixed(dataPoints[i].voltage, nanText) \o ","
                        \o Fixed(dataPoints[i].velocity, nanText) \o ","
                        \o Fixed(dataPoints[i].acceleration, nanText) \o "\n"
        ELSE /\ call.ret.ok = FALSE
             /\ call.ret.lines = << >>

\* C18 witness: a store of three samples exported to a file that opened,
\* four lines written, the second one the row of a sample whose four fields
\* are told apart by their texts.
C18_Witness ==
    /\ call.op = "exportToCSV"
    /\ call.ret.ok = TRUE
    /\ Len(dataPoints) = 3
    /\ Len(call.ret.lines) = 4
    /\ call.ret.lines[2] = "2.000000,-1.000000,0.000000,0.000000\n"

\* C19: each addDataPoint adds exactly one sample, puts it last and leaves
\* the samples before it, and their order, as they were; clearData leaves
\* the store empty; no other call changes the store.
C19_StoreAppendOnly ==
    [][ /\ call'.op = "addDataPoint" =>
               /\ Len(dataPoints') = Len(dataPoints) + 1
               /\ dataPoints'[Len(dataPoints')] =
                      DataPoint(call'.args[1], call'.args[2], call'.args[3], call'.args[4])
               /\ SubSeq(dataPoints', 1, Len(dataPoints)) = dataPoints
        /\ call'.op = "addDataPoint(point)" =>
               /\ Len(dataPoints') = Len(dataPoints) + 1
               /\ dataPoints'[Len(dataPoints')] = call'.args[1]
               /\ SubSeq(dataPoints', 1, Len(dataPoints)) = dataPoints
        /\ call'.op = "clearData" => Len(dataPoints') = 0
        /\ call'.op \notin {"addDataPoint", "addDataPoint(point)", "clearData"}
               => dataPoints' = dataPoints ]_vars

\* C19 witness: a third sample, different from the first, has just been
\* appended behind two others.
C19_Witness ==
    /\ call.op = "addDataPoint"
    /\ Len(dataPoints) = 3
    /\ dataPoints[3].voltage = call.args[1]
    /\ dataPoints[1] # dataPoints[3]
    /\ dataPoints[2] # dataPoints[3]

\* The member functions that only read.
ReadOperations ==
    { "getDataPointCount", "isSystemIdentified", "getConstants", "getRSquared",
      "predictVoltage", "calculateError", "getDesignMatrix", "getResponseVector",
      "exportToCSV" }

\* C20: a call of getDataPointCount, isSystemIdentified, getConstants,
\* getRSquared, predictVoltage, calculateError, getDesignMatrix,
\* getResponseVector or exportToCSV leaves the store, the coefficients,
\* R-squared and the identified flag as they were, in every state.
C20_ReadsChangeNothing ==
    [][ call'.op \in ReadOperations =>
            /\ dataPoints' = dataPoints
            /\ constants' = constants
            /\ rSquared' = rSquared
            /\ isIdentified' = isIdentified ]_vars

\* C20 witness: exportToCSV has written the store of an identified model,
\* which is still identified and still holds its three samples.
C20_Witness ==
    /\ call.op = "exportToCSV"
    /\ call.ret.ok = TRUE
    /\ isIdentified
    /\ Len(dataPoints) = 3
    /\ constants.kV # Zero

\* t < 1e-10 for a number t = n / d: n * 10^10 < d, 10^10 being
\* TssScale * TssScale.
BelowTssThreshold(t) ==
    \/ t.d = 0 /\ t.n < 0
    \/ t.d > 0 /\ t.n <= ((t.d - 1) \div TssScale) \div TssScale

\* C14: calculateRSquared returns 0.0 when the two vectors differ in length,
\* when they are empty, and when TSS, the sum of the squares of
\* actual_i - mean(actual), is below 1e-10; otherwise it returns
\* 1 - RSS / TSS, RSS the sum of the squares of actual_i - predicted_i.
C14_RSquaredDefinition ==
    call.op = "calculateRSquared" =>
        LET predicted == call.args[1]
            actual == call.args[2]
            n == Len(actual)
            mean == Div(SumSeq(actual), Num(n))
            TSS == SumSeq([i \in 1..n |->
                       Mul(Sub(actual[i], mean), Sub(actual[i], mean))])
            RSS == SumSeq([i \in 1..n |->
                       Mul(Sub(actual[i], predicted[i]), Sub(actual[i], predicted[i]))])
        IN  IF Len(predicted) # n \/ n = 0 THEN call.ret = Zero
            ELSE IF BelowTssThreshold(TSS) THEN call.ret = Zero
            ELSE call.ret = Sub(One, Div(RSS, TSS))

\* C14 witness: calculateRSquared has returned a negative 1 - RSS / TSS for
\* two vectors of three entries.
C14_Witness ==
    /\ call.op = "calculateRSquared"
    /\ Len(call.args[1]) = 3
    /\ Len(call.args[2]) = 3
    /\ Less(call.ret, Zero)

\* Every sample of the store has the voltage of the first one.
SameVoltage == \A i \in 1..Len(dataPoints) : dataPoints[i].voltage = dataPoints[1].voltage

\* C15: an identify on a store of at least five samples that all have the
\* same voltage, whatever the flags, returns false or returns true with
\* getRSquared() equal to 0.0.
C15_ConstantVoltage ==
    (call.op = "identify" /\ Len(dataPoints) >= 5 /\ SameVoltage)
        => \/ call.ret = FALSE
           \/ call.ret = TRUE /\ getRSquared = Zero

\* C15 witness: identify(true, true) has returned true on five samples of
\* one voltage and three different velocities, with a non-zero kS and
\* R-squared 0.0.
C15_Witness ==
    /\ call.op = "identify"
    /\ call.args = << TRUE, TRUE >>
    /\ call.ret = TRUE
    /\ Len(dataPoints) >= 5
    /\ SameVoltage
    /\ Cardinality({dataPoints[i].velocity : i \in 1..Len(dataPoints)}) = 3
    /\ constants.kS # Zero
    /\ getRSquared = Zero

\* The store holds exactly the voltages k generates at its own motions.
GeneratedBy(k) ==
    \A i \in 1..Len(dataPoints) :
        dataPoints[i].voltage =
            Add(Add(Mul(k.kS, SignOf(dataPoints[i].velocity)),
                    Mul(k.kV, dataPoints[i].velocity)),
                Mul(k.kA, dataPoints[i].acceleration))

\* At least five different (v, a), velocities of both signs, and a design
\* matrix of three independent columns.
WellSpread ==
    /\ Cardinality({ << dataPoints[i].velocity, dataPoints[i].acceleration >> :
                        i \in 1..Len(dataPoints) }) >= 5
    /\ \E i \in 1..Len(dataPoints) : dataPoints[i].velocity.n > 0
    /\ \E i \in 1..Len(dataPoints) : dataPoints[i].velocity.n < 0
    /\ ~IsZero(Det(GramMatrix(getDesignMatrix(TRUE, TRUE)), 3))

\* C17 (as claimed): on samples generated without noise by coefficients k,
\* at five or more different (v, a) with velocities of both signs and a
\* design matrix of full column rank, identify(true, true) returns true,
\* stores exactly k and stores an R-squared of at least 0.999.
C17_NoiselessRecovery ==
    \A k \in GenCoefficients :
        (call.op = "identify" /\ call.args = << TRUE, TRUE >>
            /\ GeneratedBy(k) /\ WellSpread)
            => /\ call.ret = TRUE
               /\ constants = k
               /\ ~Less(rSquared, Rat(999, 1000))

\* The step reads button A as pressed.
ReadsAPressed == pc = "A" /\ call' = get_digital("A", TRUE)

\* C21 (as claimed): in the opcontrol loop of the example, once a run has
\* been made (the motor has been commanded), every reading of button A as
\* pressed starts a new run.
C21_RetestOnA ==
    [][(ReadsAPressed /\ motor # NoCommand) => pc' = "run"]_vars

\* The voltages of a store follow the order of the levels, and the
\* timestamps of one level grow: the store is what one run collects.
OneRun(points) ==
    \A a, b \in 1..Len(points) :
        a < b => \/ Less(points[a].voltage, points[b].voltage)
                 \/ /\ points[a].voltage = points[b].voltage
                    /\ Less(points[a].timestamp, points[b].timestamp)

\* C22: in the opcontrol loop of the example a reading of button Y as
\* pressed leaves the model with no sample, unidentified, and
\* characterizationStarted false; with characterizationStarted false a
\* reading of button A as pressed starts a run; and the store that a run
\* fits holds the samples of that run alone.
C22_ClearStartsOver ==
    /\ [][(pc = "Y" /\ call'.op = "clearData")
              => /\ getDataPointCount' = 0
                 /\ ~isSystemIdentified'
                 /\ ~characterizationStarted']_vars
    /\ [][(ReadsAPressed /\ ~characterizationStarted)
              => (pc' = "run" /\ characterizationStarted')]_vars
    /\ [][(pc = "run") => (getDataPointCount' = 0 /\ ~isSystemIdentified')]_vars
    /\ [][(pc = "ex_identify") => OneRun(dataPoints)]_vars

\* C22 witness: Y read as pressed in a model that a run had identified: the
\* store is empty, the coefficients of the fit are still there.
C22_Witness ==
    /\ pc = "display"
    /\ call.op = "clearData"
    /\ ~characterizationStarted
    /\ getDataPointCount = 0
    /\ ~isSystemIdentified
    /\ getConstants # FeedforwardConstants(Zero, Zero, Zero)

\* C22 witness of the run that follows: a run is collecting its first
\* sample while the coefficients of an earlier run are still stored, which
\* only a Y and then an A read as pressed allow.
C22_SecondRunWitness ==
    /\ pc = "collect"
    /\ characterizationStarted
    /\ getDataPointCount = 1
    /\ ~isSystemIdentified
    /\ getConstants # FeedforwardConstants(Zero, Zero, Zero)

\* C23: an identify that returns false, on fewer than three samples or on a
\* solution that is not finite, leaves the samples, kS, kV, kA and the
\* R-squared as they were before the call.
C23_FailedIdentifyChangesNothing ==
    [][(call'.op = "identify" /\ call'.ret = FALSE)
            => /\ dataPoints' = dataPoints
               /\ constants' = constants
               /\ rSquared' = rSquared]_vars

\* C23 witness: identify has returned false on a solution that is not
\* finite, in a model that holds the coefficients and the R-squared of an
\* earlier fit.
C23_Witness ==
    /\ call.op = "identify"
    /\ call.ret = FALSE
    /\ Len(dataPoints) >= MinDataPoints
    /\ constants.kV # Zero
    /\ rSquared # Zero

\* C24: whatever appends, clears and identifies were called, a model that
\* says it is identified holds at least three samples.
C24_IdentifiedHasThreeSamples ==
    isSystemIdentified => getDataPointCount >= 3

\* C24 witness: an identified model of exactly three samples.
C24_Witness ==
    /\ isSystemIdentified
    /\ getDataPointCount = 3
    /\ call.op = "identify"

\* The calls that change the store.
StoreOperations == { "addDataPoint", "addDataPoint(point)", "clearData" }

\* C25: an append or a clear leaves what getConstants and getRSquared return
\* as it was, and after it predictVoltage returns 0.0 for every argument.
C25_AppendAndClearKeepStaleFit ==
    [][call'.op \in StoreOperations
            => /\ getConstants' = getConstants
               /\ getRSquared' = getRSquared
               /\ \A m \in Motions : predictVoltage(m[1], m[2])' = Zero]_vars

\* C25 witness: a clear right after a fit; getConstants still returns the
\* coefficients of the fit, which predict a non-zero voltage, and
\* predictVoltage returns 0.0.
C25_Witness ==
    /\ call.op = "clearData"
    /\ call.afterFit
    /\ getRSquared # Zero
    /\ \E m \in Motions :
            /\ calculate(getConstants, m[1], m[2]) # Zero
            /\ predictVoltage(m[1], m[2]) = Zero

\* The center button has just been pressed.
Pressed == call.op = "on_center_button"

\* A single-test run has just been started.
RunStarted == call.op = "runMotorCharacterization" /\ call.ret = "started"

\* Every run and every consistency test that starts returns.
RunsTerminate == [](InRun => <>(~InRun))

\* C26: in main.cpp, when runs return, every press of the center button is
\* followed by the start of a single-test run, whenever it is made; a run
\* starts only when no run or consistency test is executing, and its start
\* takes the request back, so that the presses made during a run cause one
\* further run once it has returned.
C26_NoStartRequestLost ==
    /\ RunsTerminate => (Pressed ~> RunStarted)
    /\ [][(RunStarted' /\ ~RunStarted)
              => (~InRun /\ startRequested /\ ~startRequested')]_vars

\* C26 witness: the center button pressed while a single-test run is
\* collecting its second level.
C26_Witness ==
    /\ Pressed
    /\ pc = "sample"
    /\ test = 0
    /\ level = 2
    /\ isCharacterizing
    /\ startRequested

\* C27: in the sampling loops of main.cpp a turn of the loop appends a sample
\* only when a reading of the same level was taken before it, previousTime
\* is that reading's time and is > 0, and the time dt between the two
\* readings is more than 0.001 s; the acceleration of the sample is the
\* difference of the two velocities over dt, and its voltage is the level's.
\* The first reading of a level is therefore never appended.
C27_SamplesFromEarlierReading ==
    [][(pc = "sample" /\ Len(dataPoints') > Len(dataPoints))
          => /\ readings # << >>
             /\ GtZero(previousTime)
             /\ previousTime = readings[Len(readings)].time
             /\ Less(MinDt, Sub(dataPoints'[Len(dataPoints')].timestamp, previousTime))
             /\ dataPoints'[Len(dataPoints')].acceleration
                    = Div(Sub(dataPoints'[Len(dataPoints')].velocity,
                              readings[Len(readings)].velocity),
                          Sub(dataPoints'[Len(dataPoints')].timestamp, previousTime))
             /\ dataPoints'[Len(dataPoints')].voltage = Rat(testVoltages[level], 1000)]_vars

\* C27 witness: at the second level of a run the second reading has been
\* appended, with a non-zero acceleration.
C27_Witness ==
    /\ pc = "sample"
    /\ level = 2
    /\ call.op = "addDataPoint"
    /\ Len(readings) = 2
    /\ dataPoints[Len(dataPoints)].acceleration # Zero
    /\ dataPoints[Len(dataPoints)].timestamp = readings[2].time

\* C27 witness of the readings that are not appended: the first reading of a
\* level was taken at time 0.0, so the second one is not appended either.
C27_SkippedWitness ==
    /\ pc = "sample"
    /\ Len(readings) = 2
    /\ readings[1].time = Zero
    /\ call.op = "get_actual_velocity"

\* A pass of data collection for one level has ended and the next has not
\* begun.
PassEnded ==
    \/ pc = "level" /\ level > 1
    \/ pc \in { "identify", "return", "ex_identify", "export" }
    \/ /\ pc = "ex_level"
       /\ \E k \in 1..(level - 1) : Abs(exampleVoltages[k]) >= MinTestVoltage

\* runMotorCharacterization or runConsistencyTest has just returned.
RunReturned ==
    \/ call.op \in { "runMotorCharacterization", "runConsistencyTest" }
           /\ call.ret = "returned"
    \/ pc = "B" /\ call.op \in { "identify", "exportToCSV" }

\* C28: in both programs, when a pass of data collection for a level has
\* ended and when a run has returned, the last command issued to the motor
\* is one of zero voltage.
C28_MotorStopped ==
    (PassEnded \/ RunReturned) => (motor.op # "none" /\ motor.voltage = 0)

\* C28 witness: in main.cpp the pass of the second level has ended.
C28_Witness ==
    /\ pc = "level"
    /\ level = 3
    /\ motor = Command("move_voltage", 0)
    /\ call.op = "move_voltage"

\* C28 witness in the example: a run has returned to opcontrol.
C28_ExampleWitness ==
    /\ pc = "B"
    /\ call.op = "exportToCSV"
    /\ motor = Command("move", 0)

====
